---------------------------- MODULE Spec2Model ----------------------------
(***************************************************************************)
(* Model of the Editor.js Delimiter block tool (CoolBytesIN/editorjs-      *)
(* delimiter).  The source holds two versions of the Delimiter class:      *)
(*   "int" : integer thickness 1..6, rendered as a CSS class               *)
(*           (src/unnamed/part_001 lines 21-520);                          *)
(*   "px"  : thickness tokens '0.5px'..'3px', rendered as border-width     *)
(*           (src/unnamed/part_001 lines 539-998).                         *)
(* One Delimiter instance is modelled: its fields _config, _data and       *)
(* _element, whether the element has a parentNode, and the callbacks the   *)
(* host holds from the menus renderSettings() returned, and the messages   *)
(* the last operation passed to console.warn.  icons/line.js               *)
(* (src/unnamed/part_000) is getLineWidthIcon, applied under SpecIcon.     *)
(***************************************************************************)
EXTENDS Integers, Sequences, FiniteSets

VARIABLES
  variant,      \* which Delimiter class: "int" or "px"
  dataArg,      \* the `data` the constructor was called with
  _config,      \* this._config (after `config || {}`)
  _data,        \* this._data
  _element,     \* this._element (the root DIV and its child)
  parentNode,   \* whether this._element.parentNode is non-null
  handlers,     \* onActivate callbacks of the menus returned so far
  lastCall,     \* the last operation invoked on the instance
  threw,        \* the error the last operation raised, or "none"
  before,       \* history: the current style, width and thickness the
                \* last operation started from
  console,      \* the distinct messages the last operation passed to
                \* console.warn
  iconWidth,    \* the width the line-width icon is asked for
  icon          \* the markup getLineWidthIcon returned, "" before the call

vars == <<variant, dataArg, _config, _data, _element, parentNode, handlers,
          lastCall, threw, before, console, iconWidth, icon>>

-----------------------------------------------------------------------------
(* JavaScript values.  A value is a record [t, v]: t is the kind, v the    *)
(* payload (an integer, a string, a boolean, a tuple for an array, a       *)
(* record of fields for a data object).                                    *)

Undefined == [t |-> "undefined", v |-> 0]
Null == [t |-> "null", v |-> 0]
NaN == [t |-> "NaN", v |-> 0]
Num(n) == [t |-> "number", v |-> n]
Str(s) == [t |-> "string", v |-> s]
Bool(b) == [t |-> "boolean", v |-> b]
Arr(items) == [t |-> "array", v |-> items]
Obj(fields) == [t |-> "object", v |-> fields]

\* typeof x
TypeOf(x) ==
  CASE x.t = "undefined" -> "undefined"
    [] x.t = "number" -> "number"
    [] x.t = "NaN" -> "number"
    [] x.t = "string" -> "string"
    [] x.t = "boolean" -> "boolean"
    [] OTHER -> "object"

\* ToBoolean(x)
Truthy(x) ==
  CASE x.t = "number" -> x.v # 0
    [] x.t = "string" -> x.v # ""
    [] x.t = "boolean" -> x.v
    [] x.t = "array" -> TRUE
    [] x.t = "object" -> TRUE
    [] OTHER -> FALSE

\* a === b
StrictEquals(a, b) == a.t # "NaN" /\ a = b

\* a || b
Or(a, b) == IF Truthy(a) THEN a ELSE b

\* array.includes(x): SameValueZero on each item
Includes(array, x) == \E i \in 1..Len(array.v) : array.v[i] = x

\* seq.find(pred) for the predicate (item) => item === x
Find(seq, x) ==
  IF \E i \in 1..Len(seq) : StrictEquals(seq[i], x)
  THEN seq[CHOOSE i \in 1..Len(seq) :
             /\ StrictEquals(seq[i], x)
             /\ \A j \in 1..(i - 1) : ~StrictEquals(seq[j], x)]
  ELSE Undefined

Range(seq) == {seq[i] : i \in 1..Len(seq)}

DigitChars == "0123456789"

IsDigit(c) == \E i \in 1..10 : SubSeq(DigitChars, i, i) = c

DigitValue(c) == (CHOOSE i \in 1..10 : SubSeq(DigitChars, i, i) = c) - 1

\* Number.prototype.toString for an integer
RECURSIVE NatToString(_)
NatToString(n) ==
  IF n < 10 THEN SubSeq(DigitChars, n + 1, n + 1)
  ELSE NatToString(n \div 10) \o SubSeq(DigitChars, (n % 10) + 1, (n % 10) + 1)

NumberToString(n) == IF n < 0 THEN "-" \o NatToString(0 - n) ELSE NatToString(n)

\* JSToString(x), as parseInt applies it to its argument
JSToString(x) ==
  CASE x.t = "number" -> NumberToString(x.v)
    [] x.t = "string" -> x.v
    [] x.t = "boolean" -> IF x.v THEN "true" ELSE "false"
    [] x.t = "undefined" -> "undefined"
    [] x.t = "null" -> "null"
    [] x.t = "NaN" -> "NaN"
    [] OTHER -> "[object Object]"

\* the index of the first character of s, from i on, that is not a blank
RECURSIVE SkipBlanks(_, _)
SkipBlanks(s, i) ==
  IF i <= Len(s) /\ SubSeq(s, i, i) = " " THEN SkipBlanks(s, i + 1) ELSE i

\* the value of the run of decimal digits of s that starts at i, given the
\* value acc of the digits read so far
RECURSIVE DigitRun(_, _, _)
DigitRun(s, i, acc) ==
  IF i <= Len(s) /\ IsDigit(SubSeq(s, i, i))
  THEN DigitRun(s, i + 1, 10 * acc + DigitValue(SubSeq(s, i, i)))
  ELSE acc

\* parseInt(x, 10): leading blanks, an optional sign, then the longest run
\* of decimal digits; NaN when there is no digit
ParseInt(x) ==
  LET s == JSToString(x)
      b == SkipBlanks(s, 1)
      signed == b <= Len(s) /\ SubSeq(s, b, b) \in {"-", "+"}
      negative == signed /\ SubSeq(s, b, b) = "-"
      d == IF signed THEN b + 1 ELSE b
  IN IF d <= Len(s) /\ IsDigit(SubSeq(s, d, d))
     THEN Num(IF negative THEN 0 - DigitRun(s, d, 0) ELSE DigitRun(s, d, 0))
     ELSE NaN

-----------------------------------------------------------------------------
(* The static getters of the class.                                        *)

DELIMITER_STYLES == <<Str("star"), Str("dash"), Str("line")>>

DEFAULT_DELIMITER_STYLE == Str("star")

SUPPORTED_LINE_WIDTHS ==
  <<Num(8), Num(15), Num(25), Num(35), Num(50), Num(60), Num(100)>>

DEFAULT_LINE_WIDTH == Num(25)

LINE_THICKNESS ==
  IF variant = "int"
  THEN <<Num(1), Num(2), Num(3), Num(4), Num(5), Num(6)>>
  ELSE <<Str("0.5px"), Str("1px"), Str("1.5px"), Str("2px"), Str("2.5px"),
         Str("3px")>>

DEFAULT_LINE_THICKNESS == IF variant = "int" THEN Num(2) ELSE Str("1px")

\* this._CSS.wrapper
CSSWrapper == IF variant = "int" THEN "ce-delimiter" ELSE "cb-delimiter"

\* this._CSS.block = this._api.styles.block, the host's block class
CSSBlock == "cdx-block"

\* this._CSS.wrapperForStyle(style)
wrapperForStyle(style) == CSSWrapper \o "-" \o JSToString(style)

\* this._CSS.wrapperForThickness(thickness)
wrapperForThickness(thickness) ==
  "ce-delimiter-thickness-" \o JSToString(thickness)

-----------------------------------------------------------------------------
(* Config resolution.  The allow-list keys are styleOptions,               *)
(* lineWidthOptions and lineThicknessOptions in the "int" class and        *)
(* styles, lineWidths and lineThickness in the "px" class; the model       *)
(* holds them under the first names.                                       *)

EmptyConfig ==
  [styleOptions |-> Undefined, defaultStyle |-> Undefined,
   lineWidthOptions |-> Undefined, defaultLineWidth |-> Undefined,
   lineThicknessOptions |-> Undefined, defaultLineThickness |-> Undefined]

\* supported.filter((x) => allowList.includes(x)), or supported when the
\* allow-list is falsy
FilterSupported(supported, allowList) ==
  IF Truthy(allowList)
  THEN SelectSeq(supported, LAMBDA x : Includes(allowList, x))
  ELSE supported

\* mutant of ResolveDefault: the user's default taken without looking it up
\* in the available list
ResolveDefault_Unchecked(available, userDefault, builtIn) ==
  IF Truthy(userDefault) THEN userDefault ELSE builtIn

\* the user's default when it is truthy and found in the available list,
\* the built-in default otherwise
ResolveDefault(available, userDefault, builtIn) ==
  IF Truthy(userDefault) /\ Truthy(Find(available, userDefault))
  THEN Find(available, userDefault)
  ELSE builtIn

availableDelimiterStyles ==
  FilterSupported(DELIMITER_STYLES, _config.styleOptions)

userDefaultDelimiterStyle ==
  ResolveDefault(availableDelimiterStyles, _config.defaultStyle,
                 DEFAULT_DELIMITER_STYLE)

availableLineWidths ==
  FilterSupported(SUPPORTED_LINE_WIDTHS, _config.lineWidthOptions)

userDefaultLineWidth ==
  ResolveDefault(availableLineWidths, _config.defaultLineWidth,
                 DEFAULT_LINE_WIDTH)

availableLineThickness ==
  FilterSupported(LINE_THICKNESS, _config.lineThicknessOptions)

userDefaultLineThickness ==
  ResolveDefault(availableLineThickness, _config.defaultLineThickness,
                 DEFAULT_LINE_THICKNESS)

\* the messages of console.warn, without their emoticon prefix
StyleWarning == "Delimiter Tool: the default style specified is invalid"
LineWidthWarning ==
  "Delimiter Tool: the default line width specified is invalid"
LineThicknessWarning ==
  "Delimiter Tool: the default line thickness specified is invalid"

\* mutant of ResolveWarns: no warning at all
ResolveWarns_Silent(available, userDefault, message) == {}

\* what one evaluation of a userDefault getter writes: the warning when the
\* user's default is truthy and not found in the available list
ResolveWarns(available, userDefault, message) ==
  IF Truthy(userDefault) /\ ~Truthy(Find(available, userDefault))
  THEN {message}
  ELSE {}

warn_userDefaultDelimiterStyle ==
  ResolveWarns(availableDelimiterStyles, _config.defaultStyle, StyleWarning)

warn_userDefaultLineWidth ==
  ResolveWarns(availableLineWidths, _config.defaultLineWidth,
               LineWidthWarning)

warn_userDefaultLineThickness ==
  ResolveWarns(availableLineThickness, _config.defaultLineThickness,
               LineThicknessWarning)

-----------------------------------------------------------------------------
(* Data normalization.                                                     *)

EmptyObject ==
  Obj([style |-> Undefined, lineWidth |-> Undefined,
       lineThickness |-> Undefined])

\* `if (typeof data !== 'object') data = {}`
CoerceData(data) == IF TypeOf(data) # "object" THEN EmptyObject ELSE data

\* whether _normalizeData(data) raises: reading a property of null does
NormalizeThrows(data) == CoerceData(data).t = "null"

\* data.<key>: undefined for a key the object does not have
Field(data, key) == IF data.t = "object" THEN data.v[key] ELSE Undefined

\* mutant of _normalizeData: the px class parsing lineThickness as the
\* integer class does
_normalizeData_ParseThickness(data) ==
  LET d == CoerceData(data)
  IN [style |-> Or(Field(d, "style"), userDefaultDelimiterStyle),
      lineWidth |-> Or(ParseInt(Field(d, "lineWidth")), userDefaultLineWidth),
      lineThickness |->
        Or(ParseInt(Field(d, "lineThickness")), userDefaultLineThickness)]

\* mutant of _normalizeData: the built-in defaults in place of the
\* configuration's resolved defaults
_normalizeData_BuiltInDefaults(data) ==
  LET d == CoerceData(data)
  IN [style |-> Or(Field(d, "style"), DEFAULT_DELIMITER_STYLE),
      lineWidth |-> Or(ParseInt(Field(d, "lineWidth")), DEFAULT_LINE_WIDTH),
      lineThickness |->
        IF variant = "int"
        THEN Or(ParseInt(Field(d, "lineThickness")), DEFAULT_LINE_THICKNESS)
        ELSE Or(Field(d, "lineThickness"), DEFAULT_LINE_THICKNESS)]

_normalizeData(data) ==
  LET d == CoerceData(data)
  IN [style |-> Or(Field(d, "style"), userDefaultDelimiterStyle),
      lineWidth |-> Or(ParseInt(Field(d, "lineWidth")), userDefaultLineWidth),
      lineThickness |->
        IF variant = "int"
        THEN Or(ParseInt(Field(d, "lineThickness")), userDefaultLineThickness)
        ELSE Or(Field(d, "lineThickness"), userDefaultLineThickness)]

-----------------------------------------------------------------------------
(* The current-value getters.                                              *)

currentDelimiterStyle ==
  IF Truthy(Find(availableDelimiterStyles, _data.style))
  THEN Find(availableDelimiterStyles, _data.style)
  ELSE userDefaultDelimiterStyle

currentLineWidth ==
  IF Truthy(Find(availableLineWidths, _data.lineWidth))
  THEN Find(availableLineWidths, _data.lineWidth)
  ELSE userDefaultLineWidth

currentLineThickness ==
  IF Truthy(Find(availableLineThickness, _data.lineThickness))
  THEN Find(availableLineThickness, _data.lineThickness)
  ELSE userDefaultLineThickness

\* what _normalizeData(data) writes: a userDefault getter is evaluated only
\* when the left operand of its `||` is falsy
warn_normalizeData(data) ==
  LET d == CoerceData(data)
      thickness == IF variant = "int" THEN ParseInt(Field(d, "lineThickness"))
                   ELSE Field(d, "lineThickness")
  IN (IF Truthy(Field(d, "style")) THEN {}
      ELSE warn_userDefaultDelimiterStyle)
     \cup (IF Truthy(ParseInt(Field(d, "lineWidth"))) THEN {}
           ELSE warn_userDefaultLineWidth)
     \cup (IF Truthy(thickness) THEN {} ELSE warn_userDefaultLineThickness)

\* what the current-value getters write: they evaluate the userDefault
\* getter only when the stored value is not found in the available list
warn_currentDelimiterStyle ==
  IF Truthy(Find(availableDelimiterStyles, _data.style))
  THEN {}
  ELSE warn_userDefaultDelimiterStyle

warn_currentLineWidth ==
  IF Truthy(Find(availableLineWidths, _data.lineWidth))
  THEN {}
  ELSE warn_userDefaultLineWidth

warn_currentLineThickness ==
  IF Truthy(Find(availableLineThickness, _data.lineThickness))
  THEN {}
  ELSE warn_userDefaultLineThickness

-----------------------------------------------------------------------------
(* The rendered element.  A node carries an identity (id), so that a       *)
(* rebuilt element differs from the one it replaces even when it looks     *)
(* the same.  Identities of discarded elements are reused.                 *)

MaxElementIds == 2

FreshId(id) == (id % MaxElementIds) + 1

\* the text of the span child for 'star' and 'dash' (the dash glyphs are
\* three em dashes in the source)
delimiterMap(style) == IF style = Str("star") THEN "***" ELSE "---"

_createChildElement ==
  IF currentDelimiterStyle \in {Str("star"), Str("dash")}
  THEN [id |-> 0, tagName |-> "span",
        textContent |-> delimiterMap(currentDelimiterStyle),
        width |-> "", borderWidth |-> "", classList |-> {}]
  ELSE [id |-> 0, tagName |-> "hr", textContent |-> "",
        width |-> JSToString(currentLineWidth) \o "%",
        borderWidth |->
          IF variant = "int" THEN "" ELSE JSToString(currentLineThickness),
        classList |->
          IF variant = "int"
          THEN {wrapperForThickness(currentLineThickness)}
          ELSE {}]

_getElement ==
  [id |-> 0,
   classList |-> {CSSWrapper, CSSBlock, wrapperForStyle(currentDelimiterStyle)},
   child |-> _createChildElement]

\* what _getElement() writes: the style is read for the style class and for
\* the choice of the child, the width and thickness for an hr only
warn_getElement ==
  warn_currentDelimiterStyle
    \cup (IF currentDelimiterStyle \in {Str("star"), Str("dash")}
          THEN {}
          ELSE warn_currentLineWidth \cup warn_currentLineThickness)

\* the node as a newly created object: it and its child get identity id
Created(node, id) == [node EXCEPT !.id = id, !.child.id = id]

\* the element of a construction that raised: there is no instance
NoElement ==
  [id |-> 0, classList |-> {},
   child |-> [id |-> 0, tagName |-> "", textContent |-> "", width |-> "",
              borderWidth |-> "", classList |-> {}]]

\* this._element.querySelector('hr') finds a node
HasHr(element) == element.child.tagName = "hr"

-----------------------------------------------------------------------------
(* icons/line.js: the icon of a line-width menu entry.                     *)

\* mutant of LineWidthIconXY: the chain without its last two tests
LineWidthIconXY_ShortChain(width) ==
  CASE StrictEquals(width, Num(8)) -> <<10, 14>>
    [] StrictEquals(width, Num(15)) -> <<9, 15>>
    [] StrictEquals(width, Num(25)) -> <<8, 16>>
    [] StrictEquals(width, Num(35)) -> <<7, 17>>
    [] OTHER -> <<4, 20>>

\* the x and y the if / else-if chain on `width === n` assigns
LineWidthIconXY(width) ==
  CASE StrictEquals(width, Num(8)) -> <<10, 14>>
    [] StrictEquals(width, Num(15)) -> <<9, 15>>
    [] StrictEquals(width, Num(25)) -> <<8, 16>>
    [] StrictEquals(width, Num(35)) -> <<7, 17>>
    [] StrictEquals(width, Num(50)) -> <<6, 18>>
    [] StrictEquals(width, Num(60)) -> <<5, 19>>
    [] OTHER -> <<4, 20>>

\* the template literal, ${x} and ${y} substituted
LineWidthIconMarkup(x, y) ==
  "<svg xmlns=\"http://www.w3.org/2000/svg\" viewBox=\"0 0 24 24\" "
  \o "width=\"24\" height=\"24\" fill=\"none\" stroke=\"currentColor\" "
  \o "stroke-width=\"2\" stroke-linecap=\"round\" "
  \o "stroke-linejoin=\"round\"><line x1=\"" \o NatToString(x)
  \o "\" y1=\"12\" x2=\"" \o NatToString(y) \o "\" y2=\"12\" /></svg>"

\* getLineWidthIcon(width)
getLineWidthIcon(width) ==
  LineWidthIconMarkup(LineWidthIconXY(width)[1], LineWidthIconXY(width)[2])

-----------------------------------------------------------------------------
(* save() and renderSettings().                                            *)

\* mutant of save: the integer class returning all three fields for every
\* style, as the px class does
save_AllFields ==
  [style |-> currentDelimiterStyle,
   lineWidth |-> currentLineWidth,
   lineThickness |-> currentLineThickness]

save ==
  IF variant = "int" /\ currentDelimiterStyle # Str("line")
  THEN [style |-> currentDelimiterStyle]
  ELSE [style |-> currentDelimiterStyle,
        lineWidth |-> currentLineWidth,
        lineThickness |-> currentLineThickness]

\* what save() writes
warn_save ==
  warn_currentDelimiterStyle
    \cup (IF variant = "px" \/ currentDelimiterStyle = Str("line")
          THEN warn_currentLineWidth \cup warn_currentLineThickness
          ELSE {})

Callback(op, arg) == [op |-> op, arg |-> arg]

_createSetting(onActivate, isActive, group) ==
  [onActivate |-> onActivate, isActive |-> isActive,
   closeOnActivate |-> TRUE, toggle |-> group]

\* mutant of renderSettings: the thickness entries built for every style
renderSettings_ThicknessAlways ==
  LET starStyle ==
        _createSetting(Callback("_setStar", Undefined),
                       currentDelimiterStyle = Str("star"), "star")
      dashStyle ==
        _createSetting(Callback("_setDash", Undefined),
                       currentDelimiterStyle = Str("dash"), "dash")
      lineWidths ==
        [i \in 1..Len(availableLineWidths) |->
           _createSetting(Callback("_setLine", availableLineWidths[i]),
                          /\ currentDelimiterStyle = Str("line")
                          /\ availableLineWidths[i] = currentLineWidth,
                          "line")]
      lineThickness ==
        [i \in 1..Len(availableLineThickness) |->
           _createSetting(
             Callback("_setLineThickness", availableLineThickness[i]),
             availableLineThickness[i] = currentLineThickness,
             "thickness")]
  IN <<starStyle, dashStyle>> \o lineWidths \o lineThickness

\* renderSettings(): the menu entries, each without its icon and label
renderSettings ==
  LET starStyle ==
        _createSetting(Callback("_setStar", Undefined),
                       currentDelimiterStyle = Str("star"), "star")
      dashStyle ==
        _createSetting(Callback("_setDash", Undefined),
                       currentDelimiterStyle = Str("dash"), "dash")
      lineWidths ==
        [i \in 1..Len(availableLineWidths) |->
           _createSetting(Callback("_setLine", availableLineWidths[i]),
                          /\ currentDelimiterStyle = Str("line")
                          /\ availableLineWidths[i] = currentLineWidth,
                          "line")]
      lineThickness ==
        IF currentDelimiterStyle = Str("line")
        THEN [i \in 1..Len(availableLineThickness) |->
                _createSetting(
                  Callback("_setLineThickness", availableLineThickness[i]),
                  availableLineThickness[i] = currentLineThickness,
                  "thickness")]
        ELSE <<>>
  IN <<starStyle, dashStyle>> \o lineWidths \o lineThickness

\* what renderSettings() writes: the width is read by a width entry and the
\* thickness by a thickness entry, both only when the current style is line
warn_renderSettings ==
  warn_currentDelimiterStyle
    \cup (IF currentDelimiterStyle = Str("line") /\ Len(availableLineWidths) > 0
          THEN warn_currentLineWidth ELSE {})
    \cup (IF currentDelimiterStyle = Str("line")
             /\ Len(availableLineThickness) > 0
          THEN warn_currentLineThickness ELSE {})

-----------------------------------------------------------------------------
(* The inputs: the `config` and `data` the host constructs the tool with,  *)
(* and the menu entries the user activates.                                *)

\* a config object: the allow-list and the default of the styles, of the
\* line widths and of the line thicknesses
ConfigOf(styles, style, widths, width, thicknesses, thickness) ==
  Obj([styleOptions |-> styles, defaultStyle |-> style,
       lineWidthOptions |-> widths, defaultLineWidth |-> width,
       lineThicknessOptions |-> thicknesses,
       defaultLineThickness |-> thickness])

StyleOptionInputs ==
  {Undefined, Arr(<<>>), Arr(<<Str("dash")>>), Arr(<<Str("line")>>),
   Arr(<<Str("star"), Str("dash")>>), Arr(<<Str("line"), Str("star")>>),
   Arr(<<Str("dash"), Str("wave"), Str("line")>>)}

DefaultStyleInputs == {Undefined, Str("line"), Str("dash"), Str("wave")}

LineWidthOptionInputs ==
  {Undefined, Arr(<<>>), Arr(<<Num(60)>>), Arr(<<Num(60), Num(8)>>),
   Arr(<<Num(25), Num(999), Str("60")>>)}

DefaultLineWidthInputs == {Undefined, Num(60), Num(999), Str("60"), Num(0)}

LineThicknessOptionInputs ==
  IF variant = "int"
  THEN {Undefined, Arr(<<>>), Arr(<<Num(5)>>), Arr(<<Num(5), Num(1)>>),
        Arr(<<Num(2), Num(9), Str("5")>>)}
  ELSE {Undefined, Arr(<<>>), Arr(<<Str("2.5px")>>),
        Arr(<<Str("2.5px"), Str("0.5px")>>),
        Arr(<<Str("1px"), Str("9px"), Num(2)>>)}

DefaultLineThicknessInputs ==
  IF variant = "int"
  THEN {Undefined, Num(5), Num(9), Str("5")}
  ELSE {Undefined, Str("2.5px"), Str("9px"), Num(2)}

\* every configuration that sets the keys of one dimension, and some that
\* set the keys of two
AllConfigInputs ==
  {Undefined,
   ConfigOf(Undefined, Str("line"), Undefined, Num(999), Undefined, Undefined)}
  \cup {ConfigOf(o, d, Undefined, Undefined, Undefined, Undefined) :
          o \in StyleOptionInputs, d \in DefaultStyleInputs}
  \cup {ConfigOf(Undefined, Undefined, o, d, Undefined, Undefined) :
          o \in LineWidthOptionInputs, d \in DefaultLineWidthInputs}
  \cup {ConfigOf(Undefined, Undefined, Undefined, Undefined, o, d) :
          o \in LineThicknessOptionInputs, d \in DefaultLineThicknessInputs}
  \cup {ConfigOf(Arr(<<Str("line"), Str("dash")>>), Str("line"), o, d,
                 Undefined, Undefined) :
          o \in LineWidthOptionInputs, d \in {Undefined, Num(60)}}
  \cup {ConfigOf(Undefined, Str("line"), Arr(<<Num(60), Num(8)>>), Num(8),
                 o, d) :
          o \in LineThicknessOptionInputs, d \in DefaultLineThicknessInputs}

\* the configurations the tool is driven under
ConfigInputs ==
  {Undefined,
   ConfigOf(Arr(<<Str("dash")>>), Undefined, Undefined, Undefined,
            Undefined, Undefined),
   ConfigOf(Arr(<<Str("line"), Str("dash")>>), Str("line"), Undefined,
            Num(999), Undefined, Undefined),
   ConfigOf(Undefined, Undefined, Arr(<<Num(60), Num(8)>>), Undefined,
            Undefined, Undefined),
   ConfigOf(Undefined, Str("line"), Arr(<<Num(60), Num(8)>>), Num(8),
            Arr(<<>>), Undefined),
   ConfigOf(Undefined, Undefined, Undefined, Undefined,
            IF variant = "int" THEN Arr(<<Num(5), Num(1)>>)
            ELSE Arr(<<Str("2.5px"), Str("0.5px")>>),
            IF variant = "int" THEN Num(5) ELSE Str("2.5px"))}

DataStyleInputs == {Undefined, Str("star"), Str("line"), Str("wave")}

DataLineWidthInputs == {Undefined, Num(60), Str("8px"), Num(999)}

DataLineThicknessInputs ==
  {Undefined, Num(5), Str("2.5px"), Str("thick")}

AllDataInputs ==
  {Undefined, Null, Num(7), Str("line"), Bool(TRUE)}
  \cup {Obj([style |-> s, lineWidth |-> w, lineThickness |-> t]) :
          s \in DataStyleInputs, w \in DataLineWidthInputs,
          t \in DataLineThicknessInputs}

\* the persisted data the tool is driven from
DataInputs ==
  {Undefined, Null,
   Obj([style |-> Str("line"), lineWidth |-> Num(60),
        lineThickness |-> IF variant = "int" THEN Num(5) ELSE Str("2.5px")]),
   Obj([style |-> Str("dash"), lineWidth |-> Undefined,
        lineThickness |-> Undefined]),
   Obj([style |-> Str("wave"), lineWidth |-> Num(999),
        lineThickness |-> Str("thick")])}

\* the width and thickness entries the user activates
LineWidthClicks == {Num(25), Num(60)}

LineThicknessClicks == {Num(2), Num(5), Str("1px"), Str("2.5px")}

-----------------------------------------------------------------------------
(* Construction.                                                           *)

CurrentValues ==
  [style |-> currentDelimiterStyle, lineWidth |-> currentLineWidth,
   lineThickness |-> currentLineThickness]

NoValues ==
  [style |-> Undefined, lineWidth |-> Undefined, lineThickness |-> Undefined]

\* whether the constructor returned an instance
Constructed == ~(lastCall.op = "constructor" /\ threw # "none")

\* new Delimiter({api, config, data}), the state it leaves
Constructor(config, data) ==
  /\ _config = IF Truthy(config) THEN config.v ELSE EmptyConfig
  /\ dataArg = data
  /\ lastCall = Callback("constructor", Undefined)
  /\ before = NoValues
  /\ handlers = {}
  /\ parentNode = FALSE
  /\ IF NormalizeThrows(dataArg)
     THEN /\ threw = "TypeError"
          /\ _data = NoValues
          /\ _element = NoElement
          /\ console = {}
     ELSE /\ threw = "none"
          /\ _data = _normalizeData(dataArg)
          /\ _element = Created(_getElement, 1)
          /\ console = warn_normalizeData(dataArg) \cup warn_getElement

\* no icon has been asked for
NoIcon ==
  /\ iconWidth = Undefined
  /\ icon = ""

Init ==
  /\ variant \in {"int", "px"}
  /\ \E config \in ConfigInputs, data \in DataInputs :
       Constructor(config, data)
  /\ NoIcon

InitAll ==
  /\ variant \in {"int", "px"}
  /\ \E config \in AllConfigInputs, data \in AllDataInputs :
       Constructor(config, data)
  /\ NoIcon

-----------------------------------------------------------------------------
(* The operations.                                                         *)

\* what every call records, and the fields no operation assigns
Call(op, arg) ==
  /\ Constructed
  /\ lastCall' = Callback(op, arg)
  /\ before' = CurrentValues
  /\ UNCHANGED <<variant, dataArg, _config, iconWidth, icon>>

\* _replaceElement(), once this._data has its new value: the new element
\* when the old one has a parent, the old one otherwise.  The new element
\* takes the old one's place in the parent.
_replaceElement ==
  /\ _element' = IF parentNode
                 THEN Created(_getElement', FreshId(_element.id))
                 ELSE _element
  /\ UNCHANGED parentNode

\* what _replaceElement() writes, once this._data has its new value
warn_replaceElement == IF parentNode THEN warn_getElement' ELSE {}

\* the host calls render() and appends the element it returns to its holder
render ==
  /\ Call("render", Undefined)
  /\ ~parentNode
  /\ parentNode' = TRUE
  /\ threw' = "none"
  /\ console' = {}
  /\ UNCHANGED <<_data, _element, handlers>>

\* the host calls save()
Save ==
  /\ Call("save", Undefined)
  /\ threw' = "none"
  /\ console' = warn_save
  /\ UNCHANGED <<_data, _element, parentNode, handlers>>

\* the host calls renderSettings() and keeps the entries' callbacks
RenderSettings ==
  /\ Call("renderSettings", Undefined)
  /\ handlers' = handlers \cup Range([i \in 1..Len(renderSettings) |->
                                        renderSettings[i].onActivate])
  /\ threw' = "none"
  /\ console' = warn_renderSettings
  /\ UNCHANGED <<_data, _element, parentNode>>

_setStar ==
  /\ Call("_setStar", Undefined)
  /\ Callback("_setStar", Undefined) \in handlers
  /\ threw' = "none"
  /\ IF currentDelimiterStyle # Str("star")
     THEN /\ _data' = [_data EXCEPT !.style = Str("star")]
          /\ _replaceElement
          /\ console' = warn_currentDelimiterStyle \cup warn_replaceElement
     ELSE /\ console' = warn_currentDelimiterStyle
          /\ UNCHANGED <<_data, _element, parentNode>>
  /\ UNCHANGED handlers

_setDash ==
  /\ Call("_setDash", Undefined)
  /\ Callback("_setDash", Undefined) \in handlers
  /\ threw' = "none"
  /\ IF currentDelimiterStyle # Str("dash")
     THEN /\ _data' = [_data EXCEPT !.style = Str("dash")]
          /\ _replaceElement
          /\ console' = warn_currentDelimiterStyle \cup warn_replaceElement
     ELSE /\ console' = warn_currentDelimiterStyle
          /\ UNCHANGED <<_data, _element, parentNode>>
  /\ UNCHANGED handlers

\* mutant of _setLine: the element replaced on every width change
_setLine_Rebuild(newWidth) ==
  /\ Call("_setLine", newWidth)
  /\ Callback("_setLine", newWidth) \in handlers
  /\ _data' = [_data EXCEPT !.lineWidth = newWidth, !.style = Str("line")]
  /\ _replaceElement
  /\ threw' = "none"
  /\ console' = warn_currentDelimiterStyle \cup warn_replaceElement
  /\ UNCHANGED handlers

_setLine(newWidth) ==
  /\ Call("_setLine", newWidth)
  /\ Callback("_setLine", newWidth) \in handlers
  /\ IF currentDelimiterStyle # Str("line")
     THEN /\ _data' = [_data EXCEPT !.lineWidth = newWidth,
                                    !.style = Str("line")]
          /\ _replaceElement
          /\ threw' = "none"
          /\ console' = warn_currentDelimiterStyle \cup warn_replaceElement
     ELSE /\ _data' = [_data EXCEPT !.lineWidth = newWidth]
          /\ console' = warn_currentDelimiterStyle
          /\ IF HasHr(_element)
             THEN /\ _element' = [_element EXCEPT !.child.width =
                                    JSToString(newWidth) \o "%"]
                  /\ threw' = "none"
             ELSE /\ _element' = _element
                  /\ threw' = IF variant = "int" THEN "none" ELSE "TypeError"
          /\ UNCHANGED parentNode
  /\ UNCHANGED handlers

\* the classes of the hr after the forEach over LINE_THICKNESS: every
\* thickness class removed, the class of newThickness added when
\* newThickness is one of LINE_THICKNESS
ThicknessClasses(classList, newThickness) ==
  (classList \ {wrapperForThickness(t) : t \in Range(LINE_THICKNESS)})
  \cup {wrapperForThickness(t) :
          t \in {u \in Range(LINE_THICKNESS) : StrictEquals(newThickness, u)}}

_setLineThickness(newThickness) ==
  /\ Call("_setLineThickness", newThickness)
  /\ Callback("_setLineThickness", newThickness) \in handlers
  /\ _data' = [_data EXCEPT !.lineThickness = newThickness]
  /\ console' = {}
  /\ IF HasHr(_element)
     THEN /\ _element' =
               IF variant = "int"
               THEN [_element EXCEPT !.child.classList =
                       ThicknessClasses(@, newThickness)]
               ELSE [_element EXCEPT !.child.borderWidth =
                       JSToString(newThickness)]
          /\ threw' = "none"
     ELSE /\ _element' = _element
          /\ threw' = IF variant = "int" THEN "none" ELSE "TypeError"
  /\ UNCHANGED <<parentNode, handlers>>

Next ==
  \/ render
  \/ Save
  \/ RenderSettings
  \/ _setStar
  \/ _setDash
  \/ \E newWidth \in LineWidthClicks : _setLine(newWidth)
  \/ \E newThickness \in LineThicknessClicks : _setLineThickness(newThickness)

Spec == Init /\ [][Next]_vars

\* construction from every input, followed by the host's first calls
NextMount ==
  \/ render
  \/ RenderSettings

SpecConstruct == InitAll /\ [][NextMount]_vars

\* the widths the icon is asked for: every integer up to MaxIconWidth, which
\* holds the six tested widths and 100, and values that are not numbers
MaxIconWidth == 100

IconWidthInputs ==
  {Num(n) : n \in 0..MaxIconWidth}
    \cup {Num(0 - 8), Str("8"), Str("60"), Undefined, Null, NaN, Bool(TRUE)}

\* a default instance of the integer class and one width to draw
InitIcon ==
  /\ variant = "int"
  /\ Constructor(Undefined, Undefined)
  /\ iconWidth \in IconWidthInputs
  /\ icon = ""

\* one call of getLineWidthIcon(iconWidth)
LineWidthIcon ==
  /\ icon = ""
  /\ icon' = getLineWidthIcon(iconWidth)
  /\ UNCHANGED <<variant, dataArg, _config, _data, _element, parentNode,
                 handlers, lastCall, threw, before, console, iconWidth>>

NextIcon == LineWidthIcon

SpecIcon == InitIcon /\ [][NextIcon]_vars

-----------------------------------------------------------------------------
(* Properties.                                                             *)

JustConstructed == lastCall.op = "constructor" /\ Constructed

\* the element's hr shows thickness t: as its one thickness class in the
\* "int" class, as its border-width in the "px" class
RendersThickness(element, t) ==
  IF variant = "int"
  THEN element.child.classList = {wrapperForThickness(t)}
  ELSE element.child.borderWidth = JSToString(t)

RendersWidth(element, w) == element.child.width = JSToString(w) \o "%"

\* data is a record whose three fields are members of the available lists
WellFormed(data) ==
  /\ data.t = "object"
  /\ data.v.style \in Range(availableDelimiterStyles)
  /\ data.v.lineWidth \in Range(availableLineWidths)
  /\ data.v.lineThickness \in Range(availableLineThickness)

\* C1: right after construction from a record whose style, lineWidth and
\* lineThickness are each in the available list, save() returns that style
\* and, when the style is 'line', that lineWidth and that lineThickness
\* (both classes).
C1_RoundTrip ==
  (JustConstructed /\ WellFormed(dataArg)) =>
    /\ save.style = dataArg.v.style
    /\ dataArg.v.style = Str("line") =>
         /\ DOMAIN save = {"style", "lineWidth", "lineThickness"}
         /\ save.lineWidth = dataArg.v.lineWidth
         /\ save.lineThickness = dataArg.v.lineThickness

C1_Witness ==
  /\ JustConstructed
  /\ WellFormed(dataArg)
  /\ dataArg.v.style = Str("line")
  /\ dataArg.v.lineWidth # userDefaultLineWidth
  /\ dataArg.v.lineThickness # userDefaultLineThickness

\* C2: in the integer-thickness class, in every reachable state, save()
\* returns a record with the one field style when the current style is star
\* or dash, and with exactly style, lineWidth and lineThickness when it is
\* line.
C2_SaveShape ==
  (Constructed /\ variant = "int") =>
    IF currentDelimiterStyle \in {Str("star"), Str("dash")}
    THEN DOMAIN save = {"style"}
    ELSE /\ currentDelimiterStyle = Str("line")
         /\ DOMAIN save = {"style", "lineWidth", "lineThickness"}

C2_Witness ==
  /\ variant = "int"
  /\ lastCall.op = "_setDash"
  /\ before.style = Str("line")
  /\ save = [style |-> Str("dash")]

\* C3: for every configuration, each dimension's resolved default is a
\* member of that dimension's available list.
C3_DefaultsAvailable ==
  Constructed =>
    /\ userDefaultDelimiterStyle \in Range(availableDelimiterStyles)
    /\ userDefaultLineWidth \in Range(availableLineWidths)
    /\ userDefaultLineThickness \in Range(availableLineThickness)

\* C4: after construction and after any callbacks, the current line width
\* and the current line thickness are members of their available lists.
C4_CurrentAvailable ==
  Constructed =>
    /\ currentLineWidth \in Range(availableLineWidths)
    /\ currentLineThickness \in Range(availableLineThickness)

\* the built-in values as the documentation of each class gives them
DocumentedStyles == <<Str("star"), Str("dash"), Str("line")>>

DocumentedWidths ==
  <<Num(8), Num(15), Num(25), Num(35), Num(50), Num(60), Num(100)>>

DocumentedThickness ==
  IF variant = "int"
  THEN <<Num(1), Num(2), Num(3), Num(4), Num(5), Num(6)>>
  ELSE <<Str("0.5px"), Str("1px"), Str("1.5px"), Str("2px"), Str("2.5px"),
         Str("3px")>>

DocumentedDefaultThickness == IF variant = "int" THEN Num(2) ELSE Str("1px")

\* one dimension of C5
ResolvedAsDocumented(allowList, preferred, builtIn, default, available, resolved) ==
  /\ (allowList.t = "array" /\ Range(allowList.v) \subseteq Range(builtIn))
       => Range(available) = Range(allowList.v)
  /\ allowList = Undefined => available = builtIn
  /\ resolved = IF preferred \in Range(available) THEN preferred ELSE default

C6_EmptyData ==
  (JustConstructed /\ dataArg \in {Undefined, EmptyObject}) =>
    /\ _data = [style |-> userDefaultDelimiterStyle,
                lineWidth |-> userDefaultLineWidth,
                lineThickness |-> userDefaultLineThickness]
    /\ _config = EmptyConfig =>
         /\ _data = [style |-> Str("star"), lineWidth |-> Num(25),
                     lineThickness |-> DocumentedDefaultThickness]
         /\ save = IF variant = "int"
                   THEN [style |-> Str("star")]
                   ELSE [style |-> Str("star"), lineWidth |-> Num(25),
                         lineThickness |-> Str("1px")]

C6_Witness ==
  /\ JustConstructed
  /\ dataArg = EmptyObject
  /\ _config.defaultStyle = Str("line")
  /\ _data.style = Str("line")
  /\ _data.lineWidth = Num(8)

\* C7: for data that is no record (undefined, null, a number, a string, a
\* boolean) the constructor raises no error and leaves the state that
\* construction from an empty record leaves.
C7_MalformedData ==
  (lastCall.op = "constructor"
     /\ dataArg.t \in {"undefined", "null", "number", "string", "boolean"})
    => /\ threw = "none"
       /\ _data = _normalizeData(EmptyObject)

\* C8: in a state whose current style is star or dash, _setLine(w) for a
\* width w of the menu makes the current style line and the current width
\* w, and replaces the root element by a new one whose child is an hr of
\* width w%.
C8_SetLineFromNonLine ==
  [][(/\ currentDelimiterStyle \in {Str("star"), Str("dash")}
      /\ lastCall'.op = "_setLine")
       => /\ currentDelimiterStyle' = Str("line")
          /\ currentLineWidth' = lastCall'.arg
          /\ _element'.id # _element.id
          /\ HasHr(_element')
          /\ RendersWidth(_element', lastCall'.arg)]_vars

\* C9: in a state whose current style is line, _setLine(w) and
\* _setLineThickness(t) keep the root element and its child the same
\* objects; of the element, _setLine changes the hr's width (to w%) and
\* nothing else, _setLineThickness the hr's thickness (to t) and nothing
\* else.
C9_PatchInPlace ==
  [][(currentDelimiterStyle = Str("line")) =>
       /\ lastCall'.op = "_setLine" =>
            /\ _element'.id = _element.id
            /\ _element'.child.id = _element.child.id
            /\ _element' = [_element EXCEPT !.child.width = _element'.child.width]
            /\ HasHr(_element) => RendersWidth(_element', lastCall'.arg)
       /\ lastCall'.op = "_setLineThickness" =>
            /\ _element'.id = _element.id
            /\ _element'.child.id = _element.child.id
            /\ _element' = [_element EXCEPT
                              !.child.classList = _element'.child.classList,
                              !.child.borderWidth = _element'.child.borderWidth]
            /\ variant = "int" => _element'.child.borderWidth = ""
            /\ variant = "px" => _element'.child.classList = {}
            /\ HasHr(_element) => RendersThickness(_element', lastCall'.arg)]_vars

C9_Witness ==
  /\ lastCall.op = "_setLine"
  /\ before.style = Str("line")
  /\ before.lineWidth # lastCall.arg
  /\ parentNode
  /\ HasHr(_element)
  /\ RendersWidth(_element, lastCall.arg)
  /\ RendersThickness(_element, Num(5))

\* C10: from a state with current style line, width w and thickness t,
\* _setStar or _setDash followed by _setLine(w) leaves an hr of width w%
\* and thickness t; _setStar and _setDash do not change the stored width
\* and thickness.
C10_AwayAndBack ==
  [][/\ lastCall'.op \in {"_setStar", "_setDash"} =>
          /\ _data'.lineWidth = _data.lineWidth
          /\ _data'.lineThickness = _data.lineThickness
     /\ (/\ lastCall.op \in {"_setStar", "_setDash"}
         /\ before.style = Str("line")
         /\ lastCall' = Callback("_setLine", before.lineWidth))
          => /\ HasHr(_element')
             /\ RendersWidth(_element', before.lineWidth)
             /\ RendersThickness(_element', before.lineThickness)]_vars


\* the x and y the icon table gives a width: the six listed widths, and
\* 4 and 20 for every other input
IconTable(width) ==
  CASE width = Num(8) -> <<10, 14>>
    [] width = Num(15) -> <<9, 15>>
    [] width = Num(25) -> <<8, 16>>
    [] width = Num(35) -> <<7, 17>>
    [] width = Num(50) -> <<6, 18>>
    [] width = Num(60) -> <<5, 19>>
    [] OTHER -> <<4, 20>>

\* the length y - x of the line drawn for a width
IconSpan(width) == LineWidthIconXY(width)[2] - LineWidthIconXY(width)[1]

\* C11: the icon returned for a width draws the line from the x to the y of
\* the table (8 -> 10,14; 15 -> 9,15; 25 -> 8,16; 35 -> 7,17; 50 -> 6,18;
\* 60 -> 5,19; anything else -> 4,20), and among the seven supported widths
\* a larger width has a strictly longer line.
C11_IconTable ==
  icon # "" =>
    /\ icon = LineWidthIconMarkup(IconTable(iconWidth)[1], IconTable(iconWidth)[2])
    /\ iconWidth \in Range(SUPPORTED_LINE_WIDTHS) =>
         \A other \in Range(SUPPORTED_LINE_WIDTHS) :
           /\ other.v > iconWidth.v => IconSpan(other) > IconSpan(iconWidth)
           /\ other.v < iconWidth.v => IconSpan(other) < IconSpan(iconWidth)

\* the icon of width 60 has been drawn
C11_Witness ==
  /\ iconWidth = Num(60)
  /\ icon = LineWidthIconMarkup(5, 19)


\* the values the entries of one toggle group activate, in menu order
ActivatedBy(menu, group) ==
  LET entries == SelectSeq(menu, LAMBDA entry : entry.toggle = group)
  IN [i \in 1..Len(entries) |-> entries[i].onActivate.arg]

\* the position of a value in a built-in list
IndexIn(list, x) == CHOOSE i \in 1..Len(list) : list[i] = x

\* the toggle groups in menu order: star, dash, line..., thickness...
GroupRank(group) ==
  CASE group = "star" -> 1
    [] group = "dash" -> 2
    [] group = "line" -> 3
    [] group = "thickness" -> 4
    [] OTHER -> 0

\* C12: renderSettings() returns one 'star' entry, one 'dash' entry, one
\* 'line' entry per available width in built-in ascending order, then
\* 'thickness' entries, one per available thickness when the current style
\* is line and none otherwise; every entry closes the menu on activation.
C12_MenuStructure ==
  Constructed =>
    LET menu == renderSettings
        widths == ActivatedBy(menu, "line")
    IN /\ Len(menu) >= 2
       /\ menu[1].toggle = "star" /\ menu[1].onActivate.op = "_setStar"
       /\ menu[2].toggle = "dash" /\ menu[2].onActivate.op = "_setDash"
       /\ \A i \in 1..Len(menu) :
            /\ GroupRank(menu[i].toggle) > 0
            /\ menu[i].closeOnActivate
            /\ menu[i].toggle = "line" => menu[i].onActivate.op = "_setLine"
            /\ menu[i].toggle = "thickness" =>
                 menu[i].onActivate.op = "_setLineThickness"
            /\ i > 2 => menu[i].toggle \in {"line", "thickness"}
            /\ \A j \in 1..Len(menu) :
                 i < j => GroupRank(menu[i].toggle) <= GroupRank(menu[j].toggle)
       /\ widths = availableLineWidths
       /\ \A i, j \in 1..Len(widths) :
            i < j => /\ widths[i].v < widths[j].v
                     /\ IndexIn(SUPPORTED_LINE_WIDTHS, widths[i])
                          < IndexIn(SUPPORTED_LINE_WIDTHS, widths[j])
       /\ ActivatedBy(menu, "thickness") =
            IF currentDelimiterStyle = Str("line")
            THEN availableLineThickness ELSE <<>>

\* renderSettings() has returned a menu with width entries and thickness
\* entries, and one with width entries only
C12_Witness ==
  /\ lastCall.op = "renderSettings"
  /\ currentDelimiterStyle = Str("line")
  /\ Len(ActivatedBy(renderSettings, "line")) > 1
  /\ Len(ActivatedBy(renderSettings, "thickness")) > 1


\* the configuration sets a default (a truthy one: `if (config.default)`)
\* that is not a member of the available list
Rejected(available, userDefault) ==
  Truthy(userDefault) /\ userDefault \notin Range(available)

\* the data the constructor was given has no field of this name
Missing(key) == Field(CoerceData(dataArg), key) = Undefined

\* the last operation read all three current values
ReadAll ==
  /\ currentDelimiterStyle = Str("line")
  /\ \/ lastCall.op = "constructor"
     \/ /\ lastCall.op = "renderSettings"
        /\ Len(availableLineWidths) > 0
        /\ Len(availableLineThickness) > 0

C14_ElementReflectsState ==
  Constructed =>
    /\ _element.classList =
         {CSSWrapper, CSSBlock, wrapperForStyle(currentDelimiterStyle)}
    /\ currentDelimiterStyle = Str("star") =>
         _element.child.tagName = "span" /\ _element.child.textContent = "***"
    /\ currentDelimiterStyle = Str("dash") =>
         _element.child.tagName = "span" /\ _element.child.textContent = "---"
    /\ currentDelimiterStyle = Str("line") =>
         /\ _element.child.tagName = "hr"
         /\ RendersWidth(_element, currentLineWidth)
         /\ RendersThickness(_element, currentLineThickness)


\* C15: no call of render(), save(), renderSettings() or of the onActivate
\* of an entry of a menu returned earlier raises an error, with or without
\* a parent and whatever child the element has.
C15_NoOperationFails ==
  lastCall.op # "constructor" => threw = "none"


\* the positions of the active entries of a menu among the given groups
ActiveIn(menu, groups) ==
  {i \in 1..Len(menu) : menu[i].toggle \in groups /\ menu[i].isActive}

\* C16: of the star entry, the dash entry and the width entries that
\* renderSettings() returns exactly one has isActive true, and when there
\* are thickness entries exactly one of them has isActive true.
C16_OneActive ==
  Constructed =>
    /\ Cardinality(ActiveIn(renderSettings, {"star", "dash", "line"})) = 1
    /\ Len(ActivatedBy(renderSettings, "thickness")) > 0 =>
         Cardinality(ActiveIn(renderSettings, {"thickness"})) = 1


\* the entries of a fresh renderSettings() that carry the given callback
EntriesFor(callback) ==
  {i \in 1..Len(renderSettings) : renderSettings[i].onActivate = callback}

\* a fresh renderSettings() has the entry of the last callback, marked
\* active
MarkedActive ==
  /\ EntriesFor(lastCall) # {}
  /\ \A i \in EntriesFor(lastCall) : renderSettings[i].isActive

\* C17: right after the onActivate of a menu entry, the state matches the
\* entry: the star entry leaves the current style 'star', the dash entry
\* 'dash', the entry of width w the style 'line' and the current width w,
\* the entry of thickness t the current thickness t; a fresh
\* renderSettings() marks that entry active and save() returns the value
\* (for a thickness, when the style is line and thickness is shown).
C17_ActivationTakesEffect ==
  /\ lastCall.op = "_setStar" =>
       /\ currentDelimiterStyle = Str("star")
       /\ MarkedActive
       /\ save.style = Str("star")
  /\ lastCall.op = "_setDash" =>
       /\ currentDelimiterStyle = Str("dash")
       /\ MarkedActive
       /\ save.style = Str("dash")
  /\ lastCall.op = "_setLine" =>
       /\ currentDelimiterStyle = Str("line")
       /\ currentLineWidth = lastCall.arg
       /\ MarkedActive
       /\ save.style = Str("line")
       /\ save.lineWidth = lastCall.arg
  /\ lastCall.op = "_setLineThickness" =>
       /\ currentLineThickness = lastCall.arg
       /\ currentDelimiterStyle = Str("line") =>
            /\ MarkedActive
            /\ save.lineThickness = lastCall.arg

=============================================================================
